---- MODULE Spec2Model ----
(***************************************************************************)
(* Model of the stream-normalization core of multi-llm-api-toolkit         *)
(* (src/llm-api-calls.js): standardizeStream, the async generator that     *)
(* turns vendor chunks into canonical events, and asyncIteratorFromReader, *)
(* the line parser of the aggregator's event stream.                       *)
(*                                                                         *)
(* JavaScript strings are sequences of one-character strings, so that the  *)
(* regular expressions /<think>/g and /<\/think>/g, String.indexOf, slice, *)
(* trim and startsWith are computed character by character.                *)
(***************************************************************************)
EXTENDS Integers, Sequences, FiniteSets, TLC

\* ------------------------------------------------------------------ bounds
\* chunks one normalized stream pulls from its vendor stream (Spec)
MaxChunks == 3
\* content fragments of an inline-markup stream (SpecInline)
MaxFrags == 5
\* chunks each of the two streams pulls (SpecPair)
MaxPairChunks == 2
\* lines of the aggregator's response body (SpecReader)
MaxLines == 3
MaxRouterLines == 2     \* lines of an aggregator body read through the whole
                        \* pipeline (SpecRouter)
\* lines of an aggregator body compared over all its splits into reads
\* (SpecSplit)
MaxSplitLines == 2
\* magnitude of the model selectors passed to an adapter (SpecCall)
MaxSelector == 3
\* messages of the chat context passed to an adapter (SpecCall)
MaxMessages == 2

\* ------------------------------------------------------- JavaScript values
\* A field of a chunk is either missing (undefined) or a string.
Undefined == [def |-> FALSE, s |-> <<>>]
Str(s) == [def |-> TRUE, s |-> s]

\* truthiness of a field: undefined and '' are falsy
Truthy(v) == v.def /\ v.s # <<>>

\* string conversion in `response + x` and `'' + x`
ToStr(v) == IF v.def THEN v.s ELSE <<"u", "n", "d", "e", "f", "i", "n", "e", "d">>

OpenTag == <<"<", "t", "h", "i", "n", "k", ">">>
CloseTag == <<"<", "/", "t", "h", "i", "n", "k", ">">>

\* (text.match(/pat/g) || []).length : non-overlapping matches, left to right
RECURSIVE CountFrom(_, _, _)
CountFrom(pat, text, i) ==
    IF i + Len(pat) - 1 > Len(text) THEN 0
    ELSE IF SubSeq(text, i, i + Len(pat) - 1) = pat
         THEN 1 + CountFrom(pat, text, i + Len(pat))
         ELSE CountFrom(pat, text, i + 1)

MatchCount(pat, text) == CountFrom(pat, text, 1)

\* ------------------------------------------------------------------ chunks
\* {choices: [{delta: {content, reasoning_content}}]}
ChoiceChunk(c, r) == [fmt |-> "choices", content |-> c, reasoning |-> r, text |-> Undefined]
\* {choices: [{}]} : a choice without a delta
NoDeltaChunk == [fmt |-> "nodelta", content |-> Undefined, reasoning |-> Undefined, text |-> Undefined]
\* {text} (Gemini), also {} and {choices: []} when text is missing
TextChunk(t) == [fmt |-> "text", content |-> Undefined, reasoning |-> Undefined, text |-> t]

\* ------------------------------------------------------------------ events
ContentDelta(v) == [type |-> "content_block_delta", text |-> v]
ReasoningDelta(v) == [type |-> "reasoning_content", text |-> v]
NoEvent == [type |-> "none", text |-> Undefined]

\* --------------------------------------------- standardizeStream, per chunk
\* variant: the tags are counted in the chunk alone, without the accumulator
TextSoFarChunkOnly(resp, chunk) ==
    IF ToStr(chunk.content) # <<>> THEN ToStr(chunk.content)
    ELSE IF ToStr(chunk.reasoning) # <<>> THEN ToStr(chunk.reasoning)
    ELSE <<>>

\* response + content || '' + reasoning_content || ''
\* parses as (response + content) || (('' + reasoning_content) || '')
TextSoFar(resp, chunk) ==
    IF resp \o ToStr(chunk.content) # <<>> THEN resp \o ToStr(chunk.content)
    ELSE IF ToStr(chunk.reasoning) # <<>> THEN ToStr(chunk.reasoning)
    ELSE <<>>

ThinkOpens(textsofar) == MatchCount(OpenTag, textsofar)
ThinkCloses(textsofar) == MatchCount(CloseTag, textsofar)

\* variant: a think block counts as open when the two counts are equal
IsInThinkTagAtEqual(resp, chunk) ==
    ThinkOpens(TextSoFar(resp, chunk)) >= ThinkCloses(TextSoFar(resp, chunk))

IsInThinkTag(resp, chunk) ==
    ThinkOpens(TextSoFar(resp, chunk)) > ThinkCloses(TextSoFar(resp, chunk))

\* variant: the close-count comparison left out
IsNotEdgeCaseAlways(resp, chunk) == TRUE

IsNotEdgeCase(resp, chunk) ==
    MatchCount(CloseTag, resp) = ThinkCloses(TextSoFar(resp, chunk))

\* the first branch: content, outside a think block, close count unchanged
TakesContentBranch(resp, chunk) ==
    /\ Truthy(chunk.content)
    /\ ~IsInThinkTag(resp, chunk)
    /\ IsNotEdgeCase(resp, chunk)

\* the else-if branch
TakesReasoningBranch(resp, chunk) ==
    /\ ~TakesContentBranch(resp, chunk)
    /\ \/ Truthy(chunk.reasoning)
       \/ IsInThinkTag(resp, chunk)
       \/ ~IsNotEdgeCase(resp, chunk)

\* variant: the else-if branch always yields the content field
ReasoningBranchContent(chunk) == chunk.content

\* what the else-if branch yields: the content field when reasoning_content is
\* falsy (whatever the content field holds), else the reasoning_content field
ReasoningBranchValue(chunk) ==
    IF ~Truthy(chunk.reasoning) THEN chunk.content ELSE chunk.reasoning

\* the event the loop body yields for one chunk (NoEvent: it yields nothing)
EventOf(resp, chunk) ==
    IF chunk.fmt = "choices"
    THEN IF TakesContentBranch(resp, chunk) THEN ContentDelta(chunk.content)
         ELSE IF TakesReasoningBranch(resp, chunk)
              THEN ReasoningDelta(ReasoningBranchValue(chunk))
              ELSE NoEvent
    ELSE IF Truthy(chunk.text) THEN ContentDelta(chunk.text)
    ELSE NoEvent

\* variant: only the first branch appends to the accumulator
ResponseAfterContentOnly(resp, chunk) ==
    IF chunk.fmt = "choices" /\ TakesContentBranch(resp, chunk)
    THEN resp \o chunk.content.s
    ELSE resp

\* the accumulator after the loop body: response += what was yielded
ResponseAfter(resp, chunk) ==
    IF chunk.fmt = "choices"
    THEN IF TakesContentBranch(resp, chunk) THEN resp \o chunk.content.s
         ELSE IF TakesReasoningBranch(resp, chunk)
              THEN resp \o ToStr(ReasoningBranchValue(chunk))
              ELSE resp
    ELSE resp

\* chunk.choices[0].delta.content on a choice without delta: TypeError
Throws(chunk) == chunk.fmt = "nodelta"


\* ============================================== asyncIteratorFromReader
\* The response body is a sequence of bytes. A byte is written as its ASCII
\* character, except 0xC3 and 0xA9, the two bytes of U+00E9 in UTF-8.
NL == "\n"
DataPrefix == <<"d", "a", "t", "a", ":", " ">>
DoneText == <<"[", "D", "O", "N", "E", "]">>

\* the lines the aggregator sends, without their line feed
\* {"text":"g"} : a payload with a text field
TextJson == <<"{", "\"", "t", "e", "x", "t", "\"", ":", "\"", "g", "\"", "}">>

LineKinds == {"obj", "str", "blank", "comment", "bad", "done"}
LineBytes(kind) ==
    CASE kind = "obj" -> DataPrefix \o <<"{", "}">>
      [] kind = "str" -> DataPrefix \o <<"\"", "C3", "A9", "\"">>
      [] kind = "blank" -> <<>>
      [] kind = "comment" -> <<":", "k">>
      [] kind = "bad" -> DataPrefix \o <<"{">>
      [] kind = "done" -> DataPrefix \o DoneText
      [] kind = "text" -> DataPrefix \o TextJson

\* the body made of these lines; the last one lacks its line feed when the
\* body is cut short
RECURSIVE WireOf(_, _)
WireOf(kinds, terminated) ==
    IF kinds = <<>> THEN <<>>
    ELSE LineBytes(Head(kinds))
         \o (IF Len(kinds) > 1 \/ terminated THEN <<NL>> ELSE <<>>)
         \o WireOf(Tail(kinds), terminated)

\* variant: decode(value) without {stream: true}: an incomplete sequence at
\* the end of value is replaced at once and nothing is kept
RECURSIVE DecodeNoStream(_, _)
DecodeNoStream(pend, bytes) ==
    IF bytes = <<>> THEN [chars |-> <<>>, pend |-> <<>>]
    ELSE IF Head(bytes) = "C3" /\ Len(bytes) > 1 /\ bytes[2] = "A9"
         THEN LET r == DecodeNoStream(<<>>, Tail(Tail(bytes)))
              IN  [chars |-> <<"E9">> \o r.chars, pend |-> <<>>]
         ELSE LET r == DecodeNoStream(<<>>, Tail(bytes))
              IN  [chars |-> <<IF Head(bytes) \in {"C3", "A9"} THEN "FFFD"
                                ELSE Head(bytes)>> \o r.chars,
                   pend |-> <<>>]

\* decoder.decode(value, {stream: true}): UTF-8 to characters; an incomplete
\* sequence at the end of value is kept for the next call
RECURSIVE Decode(_, _)
Decode(pend, bytes) ==
    IF bytes = <<>> THEN [chars |-> <<>>, pend |-> pend]
    ELSE IF pend = <<>>
         THEN IF Head(bytes) = "C3"
              THEN Decode(<<"C3">>, Tail(bytes))
              ELSE LET r == Decode(<<>>, Tail(bytes))
                   IN  [chars |-> <<IF Head(bytes) = "A9" THEN "FFFD" ELSE Head(bytes)>>
                                   \o r.chars,
                        pend |-> r.pend]
         ELSE IF Head(bytes) = "A9"
              THEN LET r == Decode(<<>>, Tail(bytes))
                   IN  [chars |-> <<"E9">> \o r.chars, pend |-> r.pend]
              ELSE LET r == Decode(<<>>, bytes)
                   IN  [chars |-> <<"FFFD">> \o r.chars, pend |-> r.pend]

\* buffer.indexOf('\n'), 1-based; 0 when there is none
RECURSIVE IndexFrom(_, _, _)
IndexFrom(text, ch, i) ==
    IF i > Len(text) THEN 0
    ELSE IF text[i] = ch THEN i
    ELSE IndexFrom(text, ch, i + 1)

IndexOfNL(text) == IndexFrom(text, NL, 1)

\* String.prototype.trim
WhiteSpace == {" ", "\r", "\t", NL}
RECURSIVE TrimLeft(_)
TrimLeft(text) ==
    IF text # <<>> /\ Head(text) \in WhiteSpace THEN TrimLeft(Tail(text)) ELSE text
RECURSIVE TrimRight(_)
TrimRight(text) ==
    IF text # <<>> /\ text[Len(text)] \in WhiteSpace
    THEN TrimRight(SubSeq(text, 1, Len(text) - 1))
    ELSE text
Trim(text) == TrimRight(TrimLeft(text))

\* line.startsWith('data: ')
StartsWithData(line) ==
    Len(line) >= Len(DataPrefix) /\ SubSeq(line, 1, Len(DataPrefix)) = DataPrefix

\* line.slice(6)
Payload(line) == SubSeq(line, Len(DataPrefix) + 1, Len(line))

\* JSON.parse on the payloads the lines above carry: the empty object and
\* string literals parse (white space around them allowed), the rest throws
IsJsonString(text) ==
    /\ Len(text) >= 2
    /\ text[1] = "\"" /\ text[Len(text)] = "\""
    /\ \A i \in 2..(Len(text) - 1) : text[i] \notin {"\"", "\\", NL, "\r", "\t"}
JsonValid(data) ==
    Trim(data) = <<"{", "}">> \/ Trim(data) = TextJson \/ IsJsonString(Trim(data))
JsonParse(data) ==
    IF Trim(data) = <<"{", "}">> THEN [t |-> "object", v |-> <<>>]
    ELSE IF Trim(data) = TextJson THEN [t |-> "textobject", v |-> <<"g">>]
    ELSE [t |-> "string", v |-> SubSeq(Trim(data), 2, Len(Trim(data)) - 1)]

\* variant: no try/catch around JSON.parse
ThrowOnParseFailure == "throw"

\* catch (e) { console.error(...) } : a line that does not parse is skipped
OnParseFailure == "skip"

\* variant: the [DONE] test left out
LineOutcomeNoSentinel(line) ==
    IF ~StartsWithData(line) THEN "ignore"
    ELSE IF JsonValid(Payload(line)) THEN "yield"
    ELSE OnParseFailure

\* what one turn of the inner loop does with the first line of the buffer
LineOutcome(line) ==
    IF ~StartsWithData(line) THEN "ignore"
    ELSE IF Payload(line) = DoneText THEN "return"
    ELSE IF JsonValid(Payload(line)) THEN "yield"
    ELSE OnParseFailure

\* ------------------------------------------------------ the vendor streams
Streams == {1, 2}

\* the chunks of an arbitrary vendor stream (Spec): choice-format chunks with
\* each field missing, empty, plain text or a tag, a choice without delta,
\* a chunk with neither choices nor text, and a Gemini chunk
Chunks ==
    { ChoiceChunk(Undefined, Undefined), ChoiceChunk(Str(<<>>), Str(<<>>)),
      ChoiceChunk(Str(<<"a">>), Undefined), ChoiceChunk(Str(OpenTag), Undefined),
      ChoiceChunk(Str(CloseTag), Undefined),
      ChoiceChunk(Undefined, Str(<<"r">>)), ChoiceChunk(Str(<<>>), Str(<<"r">>)),
      ChoiceChunk(Undefined, Str(OpenTag)),
      ChoiceChunk(Str(<<"a">>), Str(<<"r">>)),
      NoDeltaChunk, TextChunk(Undefined), TextChunk(Str(<<"g">>)) }

\* the content fragments of a vendor that inlines its reasoning (SpecInline)
Fragments ==
    { OpenTag, CloseTag, <<"a">>, <<"<">>,
      <<"/", "t", "h", "i", "n", "k", ">">>, CloseTag \o <<"b">> }
InlineChunks == {ChoiceChunk(Str(f), Undefined) : f \in Fragments}

\* the chunks of the two concurrent streams (SpecPair)
PairChunks ==
    { ChoiceChunk(Str(<<"a">>), Undefined), ChoiceChunk(Str(OpenTag), Undefined),
      ChoiceChunk(Str(CloseTag), Undefined), ChoiceChunk(Undefined, Str(<<"r">>)) }

\* ------------------------------------------------------------------- state
VARIABLES
    consumed,   \* per stream: the chunks pulled from the vendor stream so far
    response,   \* per stream: the closure variable `response` of standardizeStream
    pc,         \* per stream: where the generator stands
    pending,    \* per stream: the event computed and about to be yielded
    out,        \* per stream: the events delivered to the consumer, each with
                \* the index of the chunk it comes from
    nerr        \* per stream: the message of the error thrown to the consumer

VARIABLES
    sent,       \* the kinds of the lines the aggregator's response body holds
    terminated, \* whether the last of them ends in a line feed
    rpos,       \* how many bytes of the body reader.read() has handed over
    dpend,      \* the bytes the TextDecoder holds back (incomplete sequence)
    buffer,     \* the variable `buffer` of asyncIteratorFromReader
    yielded,    \* the parsed values yielded so far
    rpc,        \* where the line parser's generator stands
    cancels,    \* how many times reader.cancel() was called
    rerr        \* the error the line parser threw to its consumer, if any

nvars == <<consumed, response, pc, pending, out, nerr>>
rvars == <<sent, terminated, rpos, dpend, buffer, yielded, rpc, cancels, rerr>>

VARIABLES
    vendor,     \* the adapter called
    model,      \* its model argument (model.type for makeOpenRouterApiCall)
    context,    \* chatContext: per message, its image field
    apc,        \* where the call stands
    fetched,    \* per message and image: the state of its convertToBase64
    request,    \* the request sent to the vendor, if any
    reply,      \* the HTTP response of the aggregator, if any
    made,       \* the objects the call has created: body reader, normalized stream
    result,     \* the value the call resolved with
    aerr        \* the message of the error the call rejected with

avars == <<vendor, model, context, apc, fetched, request, reply, made, result, aerr>>

vars == <<nvars, rvars, avars>>

\* variant: one accumulator at module level, shared by all streams
ResponseShared(resp, s) == resp[1]

\* the accumulator a stream's generator reads: its own closure variable
ResponseOf(resp, s) == resp[s]

\* variant: one accumulator for the whole module, written by every stream
StoreResponseShared(resp, s, text) == [t \in Streams |-> text]

\* response += ... : the generator writes its own closure variable
StoreResponse(resp, s, text) == [resp EXCEPT ![s] = text]

\* variant: the newest event is handed over ahead of the earlier ones
DeliverFirst(o, k, ev) == <<[chunk |-> k, ev |-> ev]>> \o o

\* the consumer receives the yielded event after those it already has
Deliver(o, k, ev) == Append(o, [chunk |-> k, ev |-> ev])

\* variant: a terminal sentinel event after the loop
AfterLoopSentinel(k) ==
    <<[chunk |-> k, ev |-> [type |-> "message_stop", text |-> Undefined]]>>

\* what the generator yields between the end of the for-await loop and its
\* return: nothing
AfterLoop(k) == <<>>

\* error messages are sequences of parts; `${a}${b}` concatenates
NoError == <<>>

\* throw new Error(`Stream Processing Error: ${error.message}`)
StreamError(message) == <<"Stream Processing Error: ">> \o message

\* variant: the catch block swallows the failure and the generator returns
SwallowStreamFailure == "done"

\* catch (error) { throw ... } : a failure inside the loop ends the generator
\* with an error
OnStreamFailure == "error"

\* for await (const chunk of stream) { ... } : one chunk arrives and the loop
\* body runs up to its yield, or to the end of the body, or throws
Pull(s, chunk) ==
    /\ pc[s] = "pull"
    /\ consumed' = [consumed EXCEPT ![s] = Append(@, chunk)]
    /\ IF Throws(chunk)
       THEN /\ pc' = [pc EXCEPT ![s] = OnStreamFailure]
            /\ nerr' = [nerr EXCEPT ![s] = IF OnStreamFailure = "error"
                                           THEN StreamError(<<"TypeError">>)
                                           ELSE NoError]
            /\ UNCHANGED <<response, pending>>
       ELSE /\ UNCHANGED nerr
            /\ response' = StoreResponse(response, s,
                                         ResponseAfter(ResponseOf(response, s), chunk))
            /\ pending' = [pending EXCEPT
                               ![s] = EventOf(ResponseOf(response, s), chunk)]
            /\ pc' = [pc EXCEPT
                         ![s] = IF EventOf(ResponseOf(response, s), chunk) = NoEvent
                                THEN "pull" ELSE "yield"]
    /\ UNCHANGED out
    /\ UNCHANGED <<rvars, avars>>

\* yield: the consumer's next() resolves with the event
Yield(s) ==
    /\ pc[s] = "yield"
    /\ out' = [out EXCEPT ![s] = Deliver(@, Len(consumed[s]), pending[s])]
    /\ pending' = [pending EXCEPT ![s] = NoEvent]
    /\ pc' = [pc EXCEPT ![s] = "pull"]
    /\ UNCHANGED <<consumed, response, nerr>>
    /\ UNCHANGED <<rvars, avars>>

\* the vendor stream is exhausted: the for-await loop and the generator end
EndOfStream(s) ==
    /\ pc[s] = "pull"
    /\ pc' = [pc EXCEPT ![s] = "done"]
    /\ out' = [out EXCEPT ![s] = @ \o AfterLoop(Len(consumed[s]))]
    /\ UNCHANGED <<consumed, response, pending, nerr>>
    /\ UNCHANGED <<rvars, avars>>

\* the vendor stream rejects: catch rethrows "Stream Processing Error"
VendorThrows(s) ==
    /\ pc[s] = "pull"
    /\ pc' = [pc EXCEPT ![s] = OnStreamFailure]
    /\ nerr' = [nerr EXCEPT ![s] = IF OnStreamFailure = "error"
                                   THEN StreamError(<<"vendor failure">>)
                                   ELSE NoError]
    /\ UNCHANGED <<consumed, response, pending, out>>
    /\ UNCHANGED <<rvars, avars>>

\* ------------------------------------------- asyncIteratorFromReader, steps
Wire == WireOf(sent, terminated)

\* the first next(): the generator runs up to its first await reader.read()
Start ==
    /\ rpc = "start"
    /\ rpc' = "read"
    /\ UNCHANGED <<sent, terminated, rpos, dpend, buffer, yielded, cancels, rerr>>
    /\ UNCHANGED <<nvars, avars>>

\* reader.read() resolves with the next k bytes of the body, which are
\* decoded and appended to the buffer
Read ==
    /\ rpc = "read"
    /\ \E k \in 1..(Len(Wire) - rpos) :
           LET d == Decode(dpend, SubSeq(Wire, rpos + 1, rpos + k))
           IN  /\ buffer' = buffer \o d.chars
               /\ dpend' = d.pend
               /\ rpos' = rpos + k
    /\ rpc' = "lines"
    /\ UNCHANGED <<sent, terminated, yielded, cancels, rerr>>
    /\ UNCHANGED <<nvars, avars>>

\* variant: at done the text left in the buffer is parsed as a last line
ReadDoneFlush ==
    /\ rpc = "read"
    /\ rpos = Len(Wire)
    /\ rpc' = "done"
    /\ cancels' = cancels + 1
    /\ yielded' = IF LineOutcome(Trim(buffer)) = "yield"
                  THEN Append(yielded, JsonParse(Payload(Trim(buffer))))
                  ELSE yielded
    /\ UNCHANGED <<sent, terminated, rpos, dpend, buffer, rerr>>
    /\ UNCHANGED <<nvars, avars>>

\* reader.read() resolves with done: break, then finally reader.cancel()
ReadDone ==
    /\ rpc = "read"
    /\ rpos = Len(Wire)
    /\ rpc' = "done"
    /\ cancels' = cancels + 1
    /\ UNCHANGED <<sent, terminated, rpos, dpend, buffer, yielded, rerr>>
    /\ UNCHANGED <<nvars, avars>>

\* reader.read() rejects: finally reader.cancel(), the error reaches the consumer
ReadError ==
    /\ rpc = "read"
    /\ rpc' = "error"
    /\ rerr' = "read"
    /\ cancels' = cancels + 1
    /\ UNCHANGED <<sent, terminated, rpos, dpend, buffer, yielded>>
    /\ UNCHANGED <<nvars, avars>>

\* one turn of the inner loop: no line feed in the buffer, back to read();
\* else the first line is cut off the buffer, trimmed and dispatched
NextLine ==
    /\ rpc = "lines"
    /\ IF IndexOfNL(buffer) = 0
       THEN /\ rpc' = "read"
            /\ UNCHANGED <<buffer, yielded, cancels, rerr>>
       ELSE LET line == Trim(SubSeq(buffer, 1, IndexOfNL(buffer) - 1))
                outcome == LineOutcome(line)
            IN  /\ buffer' = SubSeq(buffer, IndexOfNL(buffer) + 1, Len(buffer))
                /\ yielded' = IF outcome = "yield"
                              THEN Append(yielded, JsonParse(Payload(line)))
                              ELSE yielded
                /\ rpc' = CASE outcome = "yield" -> "yielded"
                            [] outcome = "return" -> "done"
                            [] outcome = "throw" -> "error"
                            [] OTHER -> "lines"
                /\ cancels' = IF outcome \in {"return", "throw"}
                              THEN cancels + 1 ELSE cancels
                /\ rerr' = IF outcome = "throw" THEN "parse" ELSE rerr
    /\ UNCHANGED <<sent, terminated, rpos, dpend>>
    /\ UNCHANGED <<nvars, avars>>

\* the consumer asks for the next value: the generator resumes after its yield
Resume ==
    /\ rpc = "yielded"
    /\ rpc' = "lines"
    /\ UNCHANGED <<sent, terminated, rpos, dpend, buffer, yielded, cancels, rerr>>
    /\ UNCHANGED <<nvars, avars>>

\* ================================================================ adapters
Vendors == {"Claude", "Grok", "Gemini", "ChatGPT", "OpenRouter"}
Selectors == (0 - MaxSelector)..MaxSelector

\* msg.image: absent, null, or a list of n images
ImageUndefined == [kind |-> "undefined", n |-> 0]
ImageNull == [kind |-> "null", n |-> 0]
ImageList(n) == [kind |-> "list", n |-> n]
ImageFields == {ImageUndefined, ImageNull, ImageList(0), ImageList(1), ImageList(2)}
Contexts == UNION {[1..n -> ImageFields] : n \in 0..MaxMessages}

\* msg.image as a condition: undefined and null are falsy, every array is truthy
ImageTruthy(img) == img.kind = "list"

\* msg.image && msg.image.length > 0
HasImages(img) == ImageTruthy(img) /\ img.n > 0

\* variant: the reasoning selectors of makeChatGPTApiCall resolved the other
\* way round
ChatGPTModelSwapped(m) ==
    IF m < 0 THEN (IF m = -1 THEN "o3-mini" ELSE "o1")
    ELSE (IF m = 1 THEN "gpt-4o" ELSE "gpt-4o-mini")

\* the modelName expressions
ChatGPTModel(m) ==
    IF m < 0 THEN (IF m = -1 THEN "o1" ELSE "o3-mini")
    ELSE (IF m = 1 THEN "gpt-4o" ELSE "gpt-4o-mini")
ClaudeModel(m) ==
    IF m > 0
    THEN (IF m = 1 THEN "claude-3-7-sonnet-20250219" ELSE "claude-3-5-haiku-20241022")
    ELSE (IF m = -1 THEN "claude-3-7-sonnet-20250219" ELSE "claude-3-7-sonnet-20250219")
GeminiModel(m) ==
    IF m > 0
    THEN (IF m = 1 THEN "gemini-2.0-pro-exp-02-05" ELSE "gemini-2.0-flash-exp")
    ELSE (IF m = -1 THEN "gemini-2.0-flash-thinking-exp"
          ELSE "gemini-2.0-flash-thinking-exp")
GrokModel(ctx) ==
    IF \E i \in DOMAIN ctx : HasImages(ctx[i]) THEN "grok-2-vision-1212"
    ELSE "grok-2-1212"
RouterModelName == "router-model"

\* variant: reasoning switched on for every selector that is not positive
IsReasoningNonPositive(m) == m <= 0

\* const isReasoning = model < 0 ? true : false
IsReasoning(m) == m < 0

\* ...(isReasoning ? { thinking: { type: "enabled", budget_tokens: 16000 } } : {})
NoThinking == [enabled |-> FALSE, budget_tokens |-> 0]
Thinking(m) ==
    IF IsReasoning(m) THEN [enabled |-> TRUE, budget_tokens |-> 16000] ELSE NoThinking

\* the content of one message of the vendor request: its form and the number
\* of images it carries
TextOnly == [form |-> "string", images |-> 0]
ClaudeContent(img) ==
    IF img.kind # "null" THEN [form |-> "blocks", images |-> img.n] ELSE TextOnly
FormatMessage(img) ==
    IF HasImages(img) THEN [form |-> "blocks", images |-> img.n] ELSE TextOnly
GeminiParts(img) ==
    [form |-> "parts", images |-> IF ImageTruthy(img) THEN img.n ELSE 0]
RouterMessage(img) == TextOnly

\* the requests
NoRequest ==
    [sent |-> FALSE, model |-> "", thinking |-> NoThinking,
     include_reasoning |-> "absent", contents |-> <<>>]
ClaudeRequest(m, ctx) ==
    [sent |-> TRUE, model |-> ClaudeModel(m), thinking |-> Thinking(m),
     include_reasoning |-> "absent",
     contents |-> [i \in DOMAIN ctx |-> ClaudeContent(ctx[i])]]
GrokRequest(ctx) ==
    [sent |-> TRUE, model |-> GrokModel(ctx), thinking |-> NoThinking,
     include_reasoning |-> "absent",
     contents |-> [i \in DOMAIN ctx |-> FormatMessage(ctx[i])]]
GeminiRequest(m, ctx) ==
    [sent |-> TRUE, model |-> GeminiModel(m), thinking |-> NoThinking,
     include_reasoning |-> "absent",
     contents |-> [i \in DOMAIN ctx |-> GeminiParts(ctx[i])]]
ChatGPTRequest(m, ctx) ==
    [sent |-> TRUE, model |-> ChatGPTModel(m), thinking |-> NoThinking,
     include_reasoning |-> "absent",
     contents |-> [i \in DOMAIN ctx |-> FormatMessage(ctx[i])]]
RouterRequest(m, ctx) ==
    [sent |-> TRUE, model |-> RouterModelName, thinking |-> NoThinking,
     include_reasoning |-> IF IsReasoning(m) THEN "true" ELSE "false",
     contents |-> [i \in DOMAIN ctx |-> RouterMessage(ctx[i])]]
RequestOf(v, m, ctx) ==
    CASE v = "Claude" -> ClaudeRequest(m, ctx)
      [] v = "Grok" -> GrokRequest(ctx)
      [] v = "Gemini" -> GeminiRequest(m, ctx)
      [] v = "ChatGPT" -> ChatGPTRequest(m, ctx)
      [] v = "OpenRouter" -> RouterRequest(m, ctx)

\* the value a successful call resolves with: what the caller holds (a
\* stream, or a [stream, modelName] pair) and the events the stream carries
\* (the canonical two, or the vendor's own)
NoResult == [shape |-> "none", events |-> "none", name |-> ""]
AdapterReturn(v, modelName) ==
    CASE v = "Claude" -> [shape |-> "stream", events |-> "native", name |-> ""]
      [] v \in {"Gemini", "ChatGPT"} ->
             [shape |-> "stream", events |-> "canonical", name |-> ""]
      [] v \in {"Grok", "OpenRouter"} ->
             [shape |-> "pair", events |-> "canonical", name |-> modelName]

\* the objects a successful call has created
MadeBy(v) ==
    CASE v = "Claude" -> {}
      [] v = "OpenRouter" -> {"reader", "stream"}
      [] OTHER -> {"stream"}

\* the messages of the errors raised inside an adapter
MapOfUndefined == <<"Cannot read properties of undefined (reading 'map')">>
ConstructionFailure == <<"client construction failed">>
VendorFailure == <<"vendor call failed">>
FetchFailure == <<"fetch failed">>
HttpError == <<"HTTP error! status: ", "404">>
Base64Error(message) == <<"Base64 Conversion Error: ">> \o message
RouterStatusError == <<"OpenRouter API call failed with status ", "500">>
NotReadable == <<"Response body is not readable">>

\* variant: the catch block of makeGrokApiCall copied from makeChatGPTApiCall
CatchVendorCopied(v) == IF v = "Grok" THEN "ChatGPT" ELSE v

\* the vendor name in the adapter's catch block
CatchVendor(v) == v

\* throw new Error(`<Vendor> API Error: ${error.message}`)
ProviderError(v, message) == <<CatchVendor(v), " API Error: ">> \o message

\* variant: the test of response.ok left out
ResponseAcceptedAlways(r) == TRUE

\* if (!response.ok) throw ...
ResponseAccepted(r) == r.ok

NoReply == [got |-> FALSE, ok |-> FALSE, body |-> FALSE]

\* variant: only the images of the first message are awaited
ImagesReadyFirstMessage(f) ==
    f = <<>> \/ \A j \in DOMAIN f[1] : f[1][j] = "ok"

\* await Promise.all(chatContext.map(... await Promise.all(msg.image.map(...)))):
\* resolved once every convertToBase64 has resolved
ImagesReady(f) == \A i \in DOMAIN f : \A j \in DOMAIN f[i] : f[i][j] = "ok"

\* ---------------------------------------------------------- adapters, steps
\* new Anthropic(...) / new OpenAI(...) / ... or any other statement of the
\* try block throws before the request is sent
ConstructFails ==
    /\ apc = "called"
    /\ apc' = "rejected"
    /\ aerr' = ProviderError(vendor, ConstructionFailure)
    /\ UNCHANGED <<vendor, model, context, fetched, request, reply, made, result>>
    /\ UNCHANGED <<nvars, rvars>>

\* makeClaudeApiCall: chatContext.map runs every message's async function up
\* to its first await: msg.image.map throws on an undefined image field, and
\* starts one convertToBase64 per image otherwise
ClaudeBuild ==
    /\ apc = "called"
    /\ vendor = "Claude"
    /\ fetched' = [i \in DOMAIN context |->
                       IF context[i].kind = "list"
                       THEN [j \in 1..context[i].n |-> "pending"]
                       ELSE <<>>]
    /\ IF \E i \in DOMAIN context : context[i].kind = "undefined"
       THEN /\ apc' = "rejected"
            /\ aerr' = ProviderError(vendor, MapOfUndefined)
       ELSE /\ apc' = "fetching"
            /\ UNCHANGED aerr
    /\ UNCHANGED <<vendor, model, context, request, reply, made, result>>
    /\ UNCHANGED <<nvars, rvars>>

\* convertToBase64 of image j of message i settles: the fetch rejects, or
\* resolves with a non-success status, or the image is encoded; the first
\* failure rejects Promise.all and with it the call
FetchSettles(i, j, outcome) ==
    /\ fetched[i][j] = "pending"
    /\ fetched' = [fetched EXCEPT ![i][j] = outcome]
    /\ IF outcome # "ok" /\ apc = "fetching"
       THEN /\ apc' = "rejected"
            /\ aerr' = ProviderError(vendor,
                           Base64Error(IF outcome = "http" THEN HttpError
                                       ELSE FetchFailure))
       ELSE UNCHANGED <<apc, aerr>>
    /\ UNCHANGED <<vendor, model, context, request, reply, made, result>>
    /\ UNCHANGED <<nvars, rvars>>

\* makeClaudeApiCall: anthropic.beta.promptCaching.messages.create(...)
ClaudeCreate ==
    /\ apc = "fetching"
    /\ ImagesReady(fetched)
    /\ request' = ClaudeRequest(model, context)
    /\ apc' = "awaiting"
    /\ UNCHANGED <<vendor, model, context, fetched, reply, made, result, aerr>>
    /\ UNCHANGED <<nvars, rvars>>

\* the other adapters build their messages and send the request in one run
IssueRequest ==
    /\ apc = "called"
    /\ vendor # "Claude"
    /\ request' = RequestOf(vendor, model, context)
    /\ apc' = "awaiting"
    /\ UNCHANGED <<vendor, model, context, fetched, reply, made, result, aerr>>
    /\ UNCHANGED <<nvars, rvars>>

\* the vendor call (or the fetch to the aggregator) rejects
RequestFails ==
    /\ apc = "awaiting"
    /\ apc' = "rejected"
    /\ aerr' = ProviderError(vendor, VendorFailure)
    /\ UNCHANGED <<vendor, model, context, fetched, request, reply, made, result>>
    /\ UNCHANGED <<nvars, rvars>>

\* the vendor SDK resolves with its stream: the adapter returns
RequestSucceeds ==
    /\ apc = "awaiting"
    /\ vendor # "OpenRouter"
    /\ apc' = "returned"
    /\ made' = MadeBy(vendor)
    /\ result' = AdapterReturn(vendor, request.model)
    /\ UNCHANGED <<vendor, model, context, fetched, request, reply, aerr>>
    /\ UNCHANGED <<nvars, rvars>>

\* makeOpenRouterApiCall: fetch resolves with a response; the status test,
\* getReader(), asyncIteratorFromReader, standardizeStream and the return
\* follow without another await
RouterResponse(ok, body) ==
    /\ apc = "awaiting"
    /\ vendor = "OpenRouter"
    /\ reply' = [got |-> TRUE, ok |-> ok, body |-> body]
    /\ IF ~ResponseAccepted(reply')
       THEN /\ apc' = "rejected"
            /\ aerr' = ProviderError(vendor, RouterStatusError)
            /\ UNCHANGED <<made, result>>
       ELSE IF ~body
            THEN /\ apc' = "rejected"
                 /\ aerr' = ProviderError(vendor, NotReadable)
                 /\ UNCHANGED <<made, result>>
            ELSE /\ apc' = "returned"
                 /\ made' = MadeBy(vendor)
                 /\ result' = AdapterReturn(vendor, request.model)
                 /\ UNCHANGED aerr
    /\ UNCHANGED <<vendor, model, context, fetched, request>>
    /\ UNCHANGED <<nvars, rvars>>

\* ------------------------------- makeOpenRouterApiCall: the returned stream
\* the lines of the aggregator bodies read through the whole pipeline
RouterKinds == {"text", "obj", "bad", "done"}

\* the chunk the normalizer sees for a value the line parser yielded:
\* chunk.choices is undefined on all of them, chunk.text is defined on one
ChunkOf(value) ==
    IF value.t = "textobject" THEN TextChunk(Str(value.v)) ELSE TextChunk(Undefined)

\* the normalizer generator stands at a yield whose event the consumer has
LastChunkDelivered ==
    /\ out[1] # <<>>
    /\ out[1][Len(out[1])].chunk = Len(consumed[1])

\* the consumer's first next(): standardizeStream's generator starts, its
\* for-await takes the iterator of the line parser and calls next() on it,
\* which runs the line parser up to its first await reader.read()
RouterBegin ==
    /\ pc[1] = "start"
    /\ rpc = "start"
    /\ pc' = [pc EXCEPT ![1] = "pull"]
    /\ rpc' = "read"
    /\ UNCHANGED <<consumed, response, pending, out, nerr>>
    /\ UNCHANGED <<sent, terminated, rpos, dpend, buffer, yielded, cancels, rerr>>
    /\ UNCHANGED avars

\* the caller drops the returned stream, or calls return() on its iterator,
\* before the first next(): no generator body has run, so no finally runs
AbandonBeforeStart ==
    /\ pc[1] = "start"
    /\ pc' = [pc EXCEPT ![1] = "returned"]
    /\ UNCHANGED <<consumed, response, pending, out, nerr>>
    /\ UNCHANGED <<rvars, avars>>

\* for await (const chunk of stream): the value the line parser yielded is
\* the next chunk of the loop
RouterPull ==
    /\ rpc = "yielded"
    /\ Len(consumed[1]) < Len(yielded)
    /\ Pull(1, ChunkOf(yielded[Len(yielded)]))

\* the loop asks the line parser for the next value
RouterResume ==
    /\ pc[1] = "pull"
    /\ Len(consumed[1]) = Len(yielded)
    /\ Resume

\* break / return() between events: the normalizer generator returns from
\* its yield, the for-await loop closes the line parser with return(), the
\* line parser returns from its own yield through finally { reader.cancel() }
RouterAbandon ==
    /\ pc[1] = "pull"
    /\ rpc = "yielded"
    /\ Len(consumed[1]) = Len(yielded)
    /\ LastChunkDelivered
    /\ pc' = [pc EXCEPT ![1] = "returned"]
    /\ rpc' = "done"
    /\ cancels' = cancels + 1
    /\ UNCHANGED <<consumed, response, pending, out, nerr>>
    /\ UNCHANGED <<sent, terminated, rpos, dpend, buffer, yielded, rerr>>
    /\ UNCHANGED avars

\* the line parser has returned: the for-await loop and the normalizer end
RouterEnd ==
    /\ rpc = "done"
    /\ EndOfStream(1)

\* the line parser has thrown: the normalizer's catch rethrows
RouterFail ==
    /\ rpc = "error"
    /\ VendorThrows(1)

\* standardizeStream was called, its generator has not run yet; no
\* aggregator body is being parsed
Init ==
    /\ consumed = [s \in Streams |-> <<>>]
    /\ response = [s \in Streams |-> <<>>]
    /\ pc = [s \in Streams |-> "pull"]
    /\ pending = [s \in Streams |-> NoEvent]
    /\ out = [s \in Streams |-> <<>>]
    /\ nerr = [s \in Streams |-> NoError]
    /\ sent = <<>>
    /\ terminated = TRUE
    /\ rpos = 0
    /\ dpend = <<>>
    /\ buffer = <<>>
    /\ yielded = <<>>
    /\ rpc = "start"
    /\ cancels = 0
    /\ rerr = "none"
    /\ vendor = "OpenRouter"
    /\ model = 1
    /\ context = <<>>
    /\ apc = "idle"
    /\ fetched = <<>>
    /\ request = NoRequest
    /\ reply = NoReply
    /\ made = {}
    /\ result = NoResult
    /\ aerr = NoError

\* asyncIteratorFromReader was called on the reader of some response body
InitReader ==
    /\ consumed = [s \in Streams |-> <<>>]
    /\ response = [s \in Streams |-> <<>>]
    /\ pc = [s \in Streams |-> "pull"]
    /\ pending = [s \in Streams |-> NoEvent]
    /\ out = [s \in Streams |-> <<>>]
    /\ nerr = [s \in Streams |-> NoError]
    /\ sent \in UNION {[1..n -> LineKinds] : n \in 0..MaxLines}
    /\ terminated \in BOOLEAN
    /\ sent = <<>> => terminated
    /\ rpos = 0
    /\ dpend = <<>>
    /\ buffer = <<>>
    /\ yielded = <<>>
    /\ rpc = "start"
    /\ cancels = 0
    /\ rerr = "none"
    /\ vendor = "OpenRouter"
    /\ model = 1
    /\ context = <<>>
    /\ apc = "idle"
    /\ fetched = <<>>
    /\ request = NoRequest
    /\ reply = NoReply
    /\ made = {}
    /\ result = NoResult
    /\ aerr = NoError

\* makeOpenRouterApiCall has returned standardizeStream(asyncIteratorFromReader(
\* reader)) over a reader obtained by getReader(); neither generator has run
InitRouter ==
    /\ consumed = [s \in Streams |-> <<>>]
    /\ response = [s \in Streams |-> <<>>]
    /\ pc = [s \in Streams |-> IF s = 1 THEN "start" ELSE "pull"]
    /\ pending = [s \in Streams |-> NoEvent]
    /\ out = [s \in Streams |-> <<>>]
    /\ nerr = [s \in Streams |-> NoError]
    /\ sent \in UNION {[1..n -> RouterKinds] : n \in 0..MaxRouterLines}
    /\ terminated \in BOOLEAN
    /\ sent = <<>> => terminated
    /\ rpos = 0
    /\ dpend = <<>>
    /\ buffer = <<>>
    /\ yielded = <<>>
    /\ rpc = "start"
    /\ cancels = 0
    /\ rerr = "none"
    /\ vendor = "OpenRouter"
    /\ model = 1
    /\ context = <<>>
    /\ apc = "returned"
    /\ fetched = <<>>
    /\ request = RouterRequest(1, <<>>)
    /\ reply = [got |-> TRUE, ok |-> TRUE, body |-> TRUE]
    /\ made = {"reader", "stream"}
    /\ result = AdapterReturn("OpenRouter", RouterRequest(1, <<>>).model)
    /\ aerr = NoError

\* the lines of the bodies compared over all their splits into reads
SplitKinds == {"obj", "str", "bad", "done"}

\* asyncIteratorFromReader was called on the reader of one of those bodies
InitSplit ==
    /\ consumed = [s \in Streams |-> <<>>]
    /\ response = [s \in Streams |-> <<>>]
    /\ pc = [s \in Streams |-> "pull"]
    /\ pending = [s \in Streams |-> NoEvent]
    /\ out = [s \in Streams |-> <<>>]
    /\ nerr = [s \in Streams |-> NoError]
    /\ sent \in UNION {[1..n -> SplitKinds] : n \in 0..MaxSplitLines}
    /\ terminated \in BOOLEAN
    /\ sent = <<>> => terminated
    /\ rpos = 0
    /\ dpend = <<>>
    /\ buffer = <<>>
    /\ yielded = <<>>
    /\ rpc = "start"
    /\ cancels = 0
    /\ rerr = "none"
    /\ vendor = "OpenRouter"
    /\ model = 1
    /\ context = <<>>
    /\ apc = "idle"
    /\ fetched = <<>>
    /\ request = NoRequest
    /\ reply = NoReply
    /\ made = {}
    /\ result = NoResult
    /\ aerr = NoError

\* an adapter has been called with a selector and a chat context
InitCall ==
    /\ consumed = [s \in Streams |-> <<>>]
    /\ response = [s \in Streams |-> <<>>]
    /\ pc = [s \in Streams |-> "pull"]
    /\ pending = [s \in Streams |-> NoEvent]
    /\ out = [s \in Streams |-> <<>>]
    /\ nerr = [s \in Streams |-> NoError]
    /\ sent = <<>>
    /\ terminated = TRUE
    /\ rpos = 0
    /\ dpend = <<>>
    /\ buffer = <<>>
    /\ yielded = <<>>
    /\ rpc = "start"
    /\ cancels = 0
    /\ rerr = "none"
    /\ vendor \in Vendors
    /\ model \in Selectors
    /\ context \in Contexts
    /\ apc = "called"
    /\ fetched = <<>>
    /\ request = NoRequest
    /\ reply = NoReply
    /\ made = {}
    /\ result = NoResult
    /\ aerr = NoError

\* ---------------------------------------------------------- specifications
\* one normalized stream over an arbitrary vendor stream
PullAny == \E c \in Chunks : Len(consumed[1]) < MaxChunks /\ Pull(1, c)
Next ==
    \/ PullAny
    \/ Yield(1)
    \/ EndOfStream(1)
    \/ VendorThrows(1)
Spec == Init /\ [][Next]_vars

\* one normalized stream over a vendor stream of inline-markup fragments
PullFragment == \E c \in InlineChunks : Len(consumed[1]) < MaxFrags /\ Pull(1, c)
NextInline ==
    \/ PullFragment
    \/ Yield(1)
    \/ EndOfStream(1)
SpecInline == Init /\ [][NextInline]_vars

\* two normalized streams consumed with their steps interleaved
PullPair == \E s \in Streams : \E c \in PairChunks :
                Len(consumed[s]) < MaxPairChunks /\ Pull(s, c)
YieldPair == \E s \in Streams : Yield(s)
EndPair == \E s \in Streams : EndOfStream(s)
NextPair ==
    \/ PullPair
    \/ YieldPair
    \/ EndPair
SpecPair == Init /\ [][NextPair]_vars

\* the line parser over one response body, read in pieces of any size
NextReader ==
    \/ Start
    \/ Read
    \/ ReadDone
    \/ ReadError
    \/ NextLine
    \/ Resume
SpecReader == InitReader /\ [][NextReader]_vars

\* the line parser over every split of a short body into reads
SpecSplit == InitSplit /\ [][NextReader]_vars

\* the stream makeOpenRouterApiCall returns, from the call's return to the
\* moment the caller stops consuming
NextRouter ==
    \/ RouterBegin
    \/ AbandonBeforeStart
    \/ Read
    \/ ReadDone
    \/ ReadError
    \/ NextLine
    \/ RouterPull
    \/ Yield(1)
    \/ RouterResume
    \/ RouterAbandon
    \/ RouterEnd
    \/ RouterFail
SpecRouter == InitRouter /\ [][NextRouter]_vars

\* one call of one adapter, from the call to its return or rejection
FetchAny ==
    \E i \in DOMAIN fetched : \E j \in DOMAIN fetched[i] :
        \E outcome \in {"ok", "http", "net"} : FetchSettles(i, j, outcome)
RouterResponds == \E ok \in BOOLEAN : \E body \in BOOLEAN : RouterResponse(ok, body)
NextCall ==
    \/ ConstructFails
    \/ ClaudeBuild
    \/ FetchAny
    \/ ClaudeCreate
    \/ IssueRequest
    \/ RequestFails
    \/ RequestSucceeds
    \/ RouterResponds
SpecCall == InitCall /\ [][NextCall]_vars


\* ================================================================== claims
\* What the consumer has been handed, or is being handed, for chunk k of
\* stream s: the delivered events that come from chunk k, and the event at
\* the yield when chunk k is the chunk being processed.
RECURSIVE EventsOf(_)
EventsOf(entries) ==
    IF entries = <<>> THEN <<>>
    ELSE <<Head(entries).ev>> \o EventsOf(Tail(entries))

Produced(s, k) ==
    LET mine(e) == e.chunk = k
        given == EventsOf(SelectSeq(out[s], mine))
    IN  IF k = Len(consumed[s]) /\ pc[s] = "yield"
        THEN Append(given, pending[s])
        ELSE given

\* every event of stream s, delivered or at the yield, in order
Emitted(s) ==
    IF pc[s] = "yield" THEN Append(EventsOf(out[s]), pending[s])
    ELSE EventsOf(out[s])

\* The text the stream has emitted from choice-format chunks before chunk k,
\* read off the events themselves (an undefined payload prints as it
\* concatenates).
RECURSIVE TextOf(_, _)
TextOf(entries, s) ==
    IF entries = <<>> THEN <<>>
    ELSE (IF consumed[s][Head(entries).chunk].fmt = "choices"
          THEN ToStr(Head(entries).ev.text) ELSE <<>>)
         \o TextOf(Tail(entries), s)

EmittedBefore(s, k) ==
    LET earlier(e) == e.chunk < k
    IN  TextOf(SelectSeq(out[s], earlier), s)

IsPrefix(a, b) == Len(a) <= Len(b) /\ SubSeq(b, 1, Len(a)) = a

ContentOnly(c) == c.fmt = "choices" /\ Truthy(c.content) /\ ~c.reasoning.def
ReasoningOnly(c) == c.fmt = "choices" /\ Truthy(c.reasoning) /\ ~Truthy(c.content)
BothFields(c) == c.fmt = "choices" /\ Truthy(c.reasoning) /\ Truthy(c.content)
NeitherField(c) ==
    \/ c.fmt = "choices" /\ ~Truthy(c.reasoning) /\ ~Truthy(c.content)
    \/ c.fmt = "text" /\ ~Truthy(c.text)
GeminiText(c) == c.fmt = "text" /\ Truthy(c.text)

\* ---- C1 (SpecInline)
Frag(k) == consumed[1][k].content.s

RECURSIVE Joined(_)
Joined(chunks) ==
    IF chunks = <<>> THEN <<>> ELSE Head(chunks).content.s \o Joined(Tail(chunks))

TagFree(f) == MatchCount(OpenTag, f) = 0 /\ MatchCount(CloseTag, f) = 0

\* the fragments are "<think>", tag-free ones, "</think>" at position k,
\* tag-free ones
TagBalanceInput(k) ==
    /\ k \in 2..Len(consumed[1])
    /\ Frag(1) = OpenTag
    /\ Frag(k) = CloseTag
    /\ \A j \in 2..Len(consumed[1]) : j # k => TagFree(Frag(j))

TagBalanceOutput(k) ==
    /\ \A j \in 1..k : Produced(1, j) = <<ReasoningDelta(Str(Frag(j)))>>
    /\ \A j \in (k + 1)..Len(consumed[1]) :
           Produced(1, j) = <<ContentDelta(Str(Frag(j)))>>

\* no tag is put together from pieces of neighbouring fragments
NoSplitTag ==
    /\ MatchCount(OpenTag, Joined(consumed[1])) = 1
    /\ MatchCount(CloseTag, Joined(consumed[1])) = 1

\* C1 as stated: for the fragments "<think>", tag-free fragments,
\* "</think>", tag-free fragments, every fragment up to and including
\* "</think>" is emitted as reasoning_content and every later one as a
\* content_block_delta with its text.
C1_TagBalanceAsStated ==
    \A k \in 1..Len(consumed[1]) : TagBalanceInput(k) => TagBalanceOutput(k)

\* C1 as amended: the same, for fragments that do not put a tag together
\* across a fragment boundary.
C1_TagBalance ==
    \A k \in 1..Len(consumed[1]) :
        TagBalanceInput(k) /\ NoSplitTag => TagBalanceOutput(k)

\* "<think>", "a", "</think>", "a" was fed and all four events were delivered
C1_Witness ==
    /\ Len(consumed[1]) = 4
    /\ TagBalanceInput(3)
    /\ NoSplitTag
    /\ Frag(2) = <<"a">>
    /\ Frag(4) = <<"a">>
    /\ pc[1] = "pull"
    /\ Len(out[1]) = 4
    /\ out[1][4].ev.type = "content_block_delta"


\* ---- C2 (Spec)
\* C2 as stated: every choice-format chunk with non-empty content and no
\* reasoning_content field yields exactly one content_block_delta with that
\* content, whatever the text and the normalizer state; every Gemini chunk
\* with non-empty text yields exactly one content_block_delta with that text.
C2_ContentAsStated ==
    \A k \in 1..Len(consumed[1]) :
        LET c == consumed[1][k]
        IN  /\ ContentOnly(c) => Produced(1, k) = <<ContentDelta(c.content)>>
            /\ GeminiText(c) => Produced(1, k) = <<ContentDelta(c.text)>>

\* the text emitted before chunk k followed by the content of chunk k
TextWith(k) == EmittedBefore(1, k) \o consumed[1][k].content.s

\* chunk k leaves no <think> open and completes no </think>
OutsideThink(k) ==
    /\ MatchCount(OpenTag, TextWith(k)) <= MatchCount(CloseTag, TextWith(k))
    /\ MatchCount(CloseTag, TextWith(k)) = MatchCount(CloseTag, EmittedBefore(1, k))

\* C2 as amended: such a choice-format chunk yields exactly one event, which
\* carries the content; it is a content_block_delta when the content, added
\* to the text emitted so far, leaves no <think> open and completes no
\* </think>. The Gemini half stands as stated.
C2_Content ==
    \A k \in 1..Len(consumed[1]) :
        LET c == consumed[1][k]
        IN  /\ ContentOnly(c) =>
                /\ Len(Produced(1, k)) = 1
                /\ Produced(1, k)[1].text = c.content
                /\ OutsideThink(k) => Produced(1, k) = <<ContentDelta(c.content)>>
            /\ GeminiText(c) => Produced(1, k) = <<ContentDelta(c.text)>>

\* a content chunk after a closed think block, and a Gemini chunk, delivered
C2_Witness ==
    /\ Len(consumed[1]) = 3
    /\ consumed[1][1] = ChoiceChunk(Str(CloseTag), Undefined)
    /\ consumed[1][2] = ChoiceChunk(Str(<<"a">>), Undefined)
    /\ GeminiText(consumed[1][3])
    /\ OutsideThink(2)
    /\ pc[1] = "pull"
    /\ Len(out[1]) = 3
    /\ out[1][2].ev = ContentDelta(Str(<<"a">>))

\* ---- C3 (Spec)
\* C3: a choice-format chunk that carries only a non-empty reasoning_content
\* yields exactly one event, a reasoning_content event with the chunk's
\* reasoning text, and no content_block_delta, in every normalizer state.
C3_ReasoningOnly ==
    \A k \in 1..Len(consumed[1]) :
        ReasoningOnly(consumed[1][k]) =>
            Produced(1, k) = <<ReasoningDelta(consumed[1][k].reasoning)>>

\* a reasoning-only chunk arrived while a <think> was open, and was delivered
C3_Witness ==
    /\ Len(consumed[1]) = 2
    /\ consumed[1][1] = ChoiceChunk(Str(OpenTag), Undefined)
    /\ ReasoningOnly(consumed[1][2])
    /\ pc[1] = "pull"
    /\ Len(out[1]) = 2

\* ---- C4 (Spec)
\* C4: a choice-format chunk with both a non-empty reasoning_content and a
\* non-empty content yields a reasoning_content event for the one and a
\* content_block_delta for the other; neither text is dropped.
C4_BothFields ==
    \A k \in 1..Len(consumed[1]) :
        LET c == consumed[1][k]
        IN  BothFields(c) =>
                /\ \E i \in DOMAIN Produced(1, k) :
                       Produced(1, k)[i] = ReasoningDelta(c.reasoning)
                /\ \E i \in DOMAIN Produced(1, k) :
                       Produced(1, k)[i] = ContentDelta(c.content)

\* ---- C5 (Spec)
\* C5: a chunk with neither field populated produces no event, in every
\* normalizer state, also while a <think> is open.
C5_NeitherField ==
    \A k \in 1..Len(consumed[1]) :
        NeitherField(consumed[1][k]) => Produced(1, k) = <<>>


\* ---- C6 (Spec)
\* the event the loop body yields for chunk k, given the text emitted before
ExpectedOf(s, k) ==
    IF Throws(consumed[s][k]) \/ EventOf(EmittedBefore(s, k), consumed[s][k]) = NoEvent
    THEN <<>>
    ELSE <<EventOf(EmittedBefore(s, k), consumed[s][k])>>

\* C6: events are delivered in the arrival order of the chunks they come
\* from, and every event of a chunk has been delivered before the next chunk
\* is pulled: nothing is held back or reordered.
C6_OrderPreserved ==
    /\ \A i, j \in DOMAIN out[1] : i < j => out[1][i].chunk <= out[1][j].chunk
    /\ \A k \in 1..(Len(consumed[1]) - 1) :
           EventsOf(SelectSeq(out[1], LAMBDA e : e.chunk = k)) = ExpectedOf(1, k)
    /\ pc[1] = "yield" => \A i \in DOMAIN out[1] : out[1][i].chunk < Len(consumed[1])
    /\ pc[1] # "yield" => pending[1] = NoEvent

\* three chunks arrived, the second produced nothing, two events delivered
C6_Witness ==
    /\ Len(consumed[1]) = 3
    /\ pc[1] = "pull"
    /\ Len(out[1]) = 2
    /\ out[1][1].chunk = 1
    /\ out[1][2].chunk = 3

\* ---- C7 (Spec)
\* C7: the stream never emits more events than the chunks it consumed
\* produced, and when the vendor stream ends it terminates with exactly the
\* events of its chunks: every delivered event is a canonical event that comes
\* from a chunk, no chunk is reported twice, and no sentinel follows.
C7_EndOfStream ==
    /\ Len(out[1]) <= Len(consumed[1])
    /\ pc[1] = "done" =>
           /\ pending[1] = NoEvent
           /\ \A i \in DOMAIN out[1] :
                  /\ out[1][i].chunk \in 1..Len(consumed[1])
                  /\ out[1][i].ev.type \in {"content_block_delta", "reasoning_content"}
                  /\ <<out[1][i].ev>> = ExpectedOf(1, out[1][i].chunk)
           /\ \A i, j \in DOMAIN out[1] : i < j => out[1][i].chunk < out[1][j].chunk
           /\ \A k \in 1..Len(consumed[1]) : Produced(1, k) = ExpectedOf(1, k)

\* the vendor stream ended after three chunks, one of which produced nothing
C7_Witness ==
    /\ pc[1] = "done"
    /\ Len(consumed[1]) = 3
    /\ Len(out[1]) = 2
    /\ out[1][2].chunk = 3

\* ---- C8 (SpecPair)
\* C8: two fresh streams over the same chunk sequence emit the same event
\* sequence; a stream that has consumed a prefix of what the other consumed
\* has emitted a prefix of what the other emitted.
C8_Deterministic ==
    \A s, t \in Streams :
        IsPrefix(consumed[s], consumed[t]) => IsPrefix(Emitted(s), Emitted(t))

\* both streams consumed the same two chunks, after steps that interleaved,
\* and delivered a content event followed by a reasoning event
C8_Witness ==
    /\ consumed[1] = consumed[2]
    /\ Len(consumed[1]) = 2
    /\ pc[1] = "pull" /\ pc[2] = "pull"
    /\ Len(out[1]) = 2
    /\ out[1] = out[2]
    /\ out[1][1].ev.type = "content_block_delta"
    /\ out[1][2].ev.type = "reasoning_content"


\* ---- C9 (SpecReader)
\* the lines of the body that end in a line feed
CompleteKinds ==
    IF terminated THEN sent ELSE SubSeq(sent, 1, Len(sent) - 1)

\* the JSON value a data line carries
KindValue(kind) ==
    IF kind = "obj" THEN [t |-> "object", v |-> <<>>]
    ELSE [t |-> "string", v |-> <<"E9">>]

\* the values of the valid data lines before the first [DONE] line, in order
RECURSIVE ValuesBeforeDone(_)
ValuesBeforeDone(kinds) ==
    IF kinds = <<>> \/ Head(kinds) = "done" THEN <<>>
    ELSE (IF Head(kinds) \in {"obj", "str"} THEN <<KindValue(Head(kinds))>> ELSE <<>>)
         \o ValuesBeforeDone(Tail(kinds))

\* C9: the parser yields, in order, the JSON value of every complete data
\* line that parses, ignores blank and non-data lines, and ends at the first
\* "data: [DONE]" line, yielding nothing of what follows it.
C9_LineParser ==
    /\ IsPrefix(yielded, ValuesBeforeDone(CompleteKinds))
    /\ rpc = "done" => yielded = ValuesBeforeDone(CompleteKinds)

\* a data line, [DONE], and a further data line arrived in one read; the
\* parser yielded the first value and ended
C9_Witness ==
    /\ sent = <<"obj", "done", "str">>
    /\ terminated
    /\ rpc = "done"
    /\ rpos = Len(Wire)
    /\ buffer # <<>>
    /\ yielded = <<KindValue("obj")>>

\* ---- C10 (SpecReader)
\* C10: a data line whose payload is not valid JSON yields nothing and raises
\* no error: the only error the consumer ever sees is a failed read, and a
\* body with such a line still yields every valid data line before [DONE].
C10_MalformedSkipped ==
    /\ rerr # "parse"
    /\ rpc = "error" => rerr = "read"
    /\ \A i \in DOMAIN CompleteKinds :
           (/\ CompleteKinds[i] = "bad"
            /\ rpc = "done"
            /\ \A j \in 1..i : CompleteKinds[j] # "done")
           => /\ yielded = ValuesBeforeDone(CompleteKinds)
              /\ Len(yielded) <= Len(CompleteKinds) - 1

\* a malformed data line was followed by two valid ones, both yielded
C10_Witness ==
    /\ sent = <<"bad", "obj", "str">>
    /\ terminated
    /\ rpc = "done"
    /\ rerr = "none"
    /\ yielded = <<KindValue("obj"), KindValue("str")>>


\* ---- C13 (Spec)
\* C13: a vendor stream that throws, or a malformed chunk, ends the normalized
\* stream with an error whose message starts "Stream Processing Error: ",
\* never with a normal end; the events of the chunks before the failure have
\* all been delivered and nothing else has.
C13_StreamFailure ==
    /\ \A k \in 1..Len(consumed[1]) :
           Throws(consumed[1][k]) => k = Len(consumed[1]) /\ pc[1] = "error"
    /\ nerr[1] # NoError <=> pc[1] = "error"
    /\ pc[1] = "error" =>
           /\ Head(nerr[1]) = "Stream Processing Error: "
           /\ Len(nerr[1]) > 1
           /\ pending[1] = NoEvent
           /\ \A k \in 1..Len(consumed[1]) :
                  EventsOf(SelectSeq(out[1], LAMBDA e : e.chunk = k)) = ExpectedOf(1, k)
           /\ \A i \in DOMAIN out[1] : out[1][i].chunk \in 1..Len(consumed[1])

\* two chunks were delivered, then a choice without delta arrived
C13_Witness ==
    /\ pc[1] = "error"
    /\ Len(consumed[1]) = 3
    /\ Throws(consumed[1][3])
    /\ Len(out[1]) = 2
    /\ nerr[1] = StreamError(<<"TypeError">>)


\* ---- C16 (SpecPair)
\* the events a stream consumed alone emits for a chunk sequence, starting
\* from accumulator resp
RECURSIVE AloneEvents(_, _)
AloneEvents(chunks, resp) ==
    IF chunks = <<>> \/ Throws(Head(chunks)) THEN <<>>
    ELSE (IF EventOf(resp, Head(chunks)) = NoEvent THEN <<>>
          ELSE <<EventOf(resp, Head(chunks))>>)
         \o AloneEvents(Tail(chunks), ResponseAfter(resp, Head(chunks)))

\* the accumulator of a stream consumed alone after a chunk sequence
RECURSIVE AloneResponse(_, _)
AloneResponse(chunks, resp) ==
    IF chunks = <<>> \/ Throws(Head(chunks)) THEN resp
    ELSE AloneResponse(Tail(chunks), ResponseAfter(resp, Head(chunks)))

\* C16: with the steps of two streams interleaved in any order, each stream
\* has emitted exactly the events it emits when consumed alone over its own
\* chunks, and its accumulator is a function of its own chunks only.
C16_Isolation ==
    \A s \in Streams :
        /\ Emitted(s) = AloneEvents(consumed[s], <<>>)
        /\ response[s] = AloneResponse(consumed[s], <<>>)

\* stream 1 is inside a think block, stream 2 is not, and the same second
\* chunk came out as reasoning on stream 1 and as content on stream 2
C16_Witness ==
    /\ Len(consumed[1]) = 2 /\ Len(consumed[2]) = 2
    /\ consumed[1][1] = ChoiceChunk(Str(OpenTag), Undefined)
    /\ consumed[2][1] = ChoiceChunk(Str(<<"a">>), Undefined)
    /\ consumed[1][2] = consumed[2][2]
    /\ Len(out[1]) = 2 /\ Len(out[2]) = 2
    /\ out[1][2].ev.type = "reasoning_content"
    /\ out[2][2].ev.type = "content_block_delta"


\* ---- C11 (SpecRouter)
\* the caller has stopped consuming the stream: it ended, failed, or was
\* abandoned
StoppedConsuming == pc[1] \in {"done", "error", "returned"}

\* C11: once the caller has stopped consuming the stream returned by
\* makeOpenRouterApiCall, the reader obtained by getReader() has been
\* cancelled.
C11_ReaderReleased == StoppedConsuming => cancels >= 1

\* the reader is cancelled on every stop that comes after the first next()
ReleasedOnceStarted ==
    StoppedConsuming /\ (consumed[1] # <<>> \/ rpos > 0 \/ rpc # "start")
        => cancels = 1


\* ---- C12 (SpecCall)
\* C12: when the aggregator answers with a non-success status, the call
\* rejects with an error and returns nothing: no body reader was acquired and
\* no normalized stream was created.
C12_NonSuccessRejects ==
    vendor = "OpenRouter" /\ reply.got /\ ~reply.ok =>
        /\ apc = "rejected"
        /\ aerr # NoError
        /\ result = NoResult
        /\ made = {}

\* a non-success response that has a body
C12_Witness ==
    /\ vendor = "OpenRouter"
    /\ reply = [got |-> TRUE, ok |-> FALSE, body |-> TRUE]
    /\ apc = "rejected"
    /\ aerr = ProviderError("OpenRouter", RouterStatusError)

\* ---- C14 (SpecCall)
\* the messages of the failures raised inside an adapter
OriginalMessages ==
    { MapOfUndefined, ConstructionFailure, VendorFailure, Base64Error(FetchFailure),
      Base64Error(HttpError), RouterStatusError, NotReadable }

\* the message the adapter's error carries after its prefix
CauseOf(message) == SubSeq(message, 3, Len(message))

\* C14: every rejection of an adapter carries "<Vendor> API Error: " with the
\* adapter's own vendor name, followed by the message of the failure that
\* caused it; a call that has not rejected carries no error.
C14_VendorPrefix ==
    /\ apc # "rejected" => aerr = NoError
    /\ apc = "rejected" =>
           /\ Len(aerr) > 2
           /\ aerr[1] = vendor
           /\ aerr[2] = " API Error: "
           /\ CauseOf(aerr) \in OriginalMessages
           /\ reply.got /\ ~reply.ok => CauseOf(aerr) = RouterStatusError
           /\ reply.got /\ reply.ok => CauseOf(aerr) = NotReadable
           /\ request.sent /\ ~reply.got => CauseOf(aerr) = VendorFailure

\* the vendor call of makeGrokApiCall failed
C14_Witness ==
    /\ vendor = "Grok"
    /\ request.sent
    /\ apc = "rejected"
    /\ aerr = <<"Grok", " API Error: ">> \o VendorFailure

\* ---- C15 (SpecCall)
\* an image whose fetch failed or came back with a non-success status
SomeFetchFailed ==
    \E i \in DOMAIN fetched : \E j \in DOMAIN fetched[i] :
        fetched[i][j] \in {"http", "net"}

\* C15: in makeClaudeApiCall the request is sent only when every image of
\* every message has been fetched and encoded; once any image fetch has
\* failed the call is rejected as a Claude API Error and no request is sent,
\* whatever the other fetches do afterwards.
C15_ImageFailureFatal ==
    vendor = "Claude" =>
        /\ request.sent =>
               /\ DOMAIN fetched = DOMAIN context
               /\ \A i \in DOMAIN context :
                      /\ context[i].kind = "list" => Len(fetched[i]) = context[i].n
                      /\ \A j \in DOMAIN fetched[i] : fetched[i][j] = "ok"
        /\ SomeFetchFailed =>
               /\ apc = "rejected"
               /\ ~request.sent
               /\ aerr[1] = "Claude"
               /\ CauseOf(aerr) \in
                      {Base64Error(FetchFailure), Base64Error(HttpError), MapOfUndefined}

\* two messages with one image each: the second image came back with a
\* non-success status, the first was encoded, and the call is rejected
C15_Witness ==
    /\ vendor = "Claude"
    /\ fetched = << <<"ok">>, <<"http">> >>
    /\ apc = "rejected"
    /\ ~request.sent
    /\ aerr = ProviderError("Claude", Base64Error(HttpError))

\* ---- C17 (SpecCall)
\* C17: every successful adapter call returns a stream the caller iterates
\* directly and whose elements are all canonical events.
C17_UniformReturn ==
    apc = "returned" => result.shape = "stream" /\ result.events = "canonical"

\* ---- C18 (SpecCall)
\* the identifiers of each vendor
VendorModels(v) ==
    CASE v = "Claude" -> {"claude-3-7-sonnet-20250219", "claude-3-5-haiku-20241022"}
      [] v = "Gemini" -> {"gemini-2.0-pro-exp-02-05", "gemini-2.0-flash-exp",
                          "gemini-2.0-flash-thinking-exp"}
      [] v = "ChatGPT" -> {"gpt-4o", "gpt-4o-mini", "o1", "o3-mini"}

\* the documented table
DocumentedSelectors(v) == IF v = "ChatGPT" THEN {1, 2, -1, -2} ELSE {1, 2, -1}
DocumentedModel(v, m) ==
    CASE v = "Claude" ->
             IF m = 2 THEN "claude-3-5-haiku-20241022" ELSE "claude-3-7-sonnet-20250219"
      [] v = "Gemini" ->
             IF m = 1 THEN "gemini-2.0-pro-exp-02-05"
             ELSE IF m = 2 THEN "gemini-2.0-flash-exp"
             ELSE "gemini-2.0-flash-thinking-exp"
      [] v = "ChatGPT" ->
             IF m = 1 THEN "gpt-4o"
             ELSE IF m = 2 THEN "gpt-4o-mini"
             ELSE IF m = -1 THEN "o1"
             ELSE "o3-mini"

\* C18: for every integer selector the Claude, Gemini and ChatGPT adapters
\* send a request whose model is one of the vendor's identifiers, the
\* documented one for a documented selector; no call fails on its selector.
C18_SelectorTable ==
    vendor \in {"Claude", "Gemini", "ChatGPT"} =>
        /\ request.sent =>
               /\ request.model \in VendorModels(vendor)
               /\ model \in DocumentedSelectors(vendor) =>
                      request.model = DocumentedModel(vendor, model)
        /\ apc = "rejected" /\ ~request.sent =>
               CauseOf(aerr) \in {ConstructionFailure, MapOfUndefined,
                                  Base64Error(FetchFailure), Base64Error(HttpError)}

\* the second reasoning selector of makeChatGPTApiCall
C18_Witness ==
    /\ vendor = "ChatGPT"
    /\ model = -2
    /\ request.sent
    /\ request.model = "o3-mini"

\* ---- C19 (SpecCall)
\* the request asks for reasoning: by its thinking configuration, by
\* include_reasoning, or by naming a reasoning model
ReasoningModels == {"o1", "o3-mini", "gemini-2.0-flash-thinking-exp"}
ReasoningOn ==
    \/ request.thinking.enabled
    \/ request.include_reasoning = "true"
    \/ request.model \in ReasoningModels

\* C19 as stated: the request asks for reasoning exactly when the selector
\* is negative, and a negative selector N of makeClaudeApiCall names the
\* model that selector |N| names.
C19_SignAsStated ==
    request.sent /\ vendor # "Grok" =>
        /\ ReasoningOn <=> model < 0
        /\ vendor = "Claude" /\ model < 0 => request.model = ClaudeModel(0 - model)

\* C19: for a selector other than zero the request asks for reasoning
\* exactly when the selector is negative; the Claude request carries the
\* thinking configuration iff model < 0 and the OpenRouter body has
\* include_reasoning true iff model.type < 0, zero included; every negative
\* selector of makeClaudeApiCall names claude-3-7-sonnet-20250219, and
\* selector 0 of makeGeminiApiCall names the thinking model.
C19_Sign ==
    request.sent /\ vendor # "Grok" =>
        /\ model # 0 => (ReasoningOn <=> model < 0)
        /\ vendor = "Claude" =>
               /\ request.thinking.enabled <=> model < 0
               /\ model < 0 => request.model = "claude-3-7-sonnet-20250219"
        /\ vendor = "OpenRouter" => (request.include_reasoning = "true" <=> model < 0)
        /\ vendor = "Gemini" /\ model = 0 =>
               request.model = "gemini-2.0-flash-thinking-exp"

\* makeClaudeApiCall with selector -2: thinking on, on the sonnet model
C19_Witness ==
    /\ vendor = "Claude"
    /\ model = -2
    /\ request.sent
    /\ request.thinking.enabled
    /\ request.model = "claude-3-7-sonnet-20250219"

\* ---- C20 (SpecCall)
\* no message of the chat context has an image
NoImages == \A i \in DOMAIN context : ~HasImages(context[i])

\* C20: a chat context whose messages have no images (image undefined, null
\* or empty) never makes request construction fail, and every message of the
\* request is text only.
C20_ImagesOptional ==
    NoImages =>
        /\ apc = "rejected" =>
               CauseOf(aerr) \in {ConstructionFailure, VendorFailure,
                                  RouterStatusError, NotReadable}
        /\ request.sent => \A i \in DOMAIN request.contents :
                               request.contents[i].images = 0


\* ---- C21 (SpecInline)
\* the event the classification rule gives for content text on accumulator B
RuleEvent(B, content) ==
    IF \/ MatchCount(OpenTag, B \o content) > MatchCount(CloseTag, B \o content)
       \/ MatchCount(CloseTag, B \o content) # MatchCount(CloseTag, B)
    THEN ReasoningDelta(Str(content))
    ELSE ContentDelta(Str(content))

\* the step pulls one chunk with non-empty content and no reasoning_content
PullsContentChunk ==
    /\ Len(consumed'[1]) = Len(consumed[1]) + 1
    /\ consumed'[1][Len(consumed'[1])].fmt = "choices"
    /\ Truthy(consumed'[1][Len(consumed'[1])].content)
    /\ ~consumed'[1][Len(consumed'[1])].reasoning.def

\* C21: a choice-format chunk with non-empty content and no
\* reasoning_content, arriving on accumulator B, yields exactly one event
\* with the content unchanged: a reasoning_content event iff B + content has
\* more "<think>" than "</think>" or another count of "</think>" than B, a
\* content_block_delta otherwise.
C21_Classification ==
    [][PullsContentChunk =>
           /\ pc'[1] = "yield"
           /\ pending'[1] = RuleEvent(response[1],
                                consumed'[1][Len(consumed'[1])].content.s)]_vars

\* a closing tag followed by answer text in one fragment came out wholly as
\* reasoning, and so did the second half of a closing tag split in two
C21_Witness ==
    /\ Len(out[1]) >= 4
    /\ \E i \in DOMAIN out[1] :
           out[1][i].ev = ReasoningDelta(Str(CloseTag \o <<"b">>))
    /\ \E i \in DOMAIN out[1] :
           /\ i > 1
           /\ out[1][i - 1].ev.text = Str(<<"<">>)
           /\ out[1][i].ev = ReasoningDelta(Str(<<"/", "t", "h", "i", "n", "k", ">">>))


\* ---- C22 (Spec)
\* the texts of the content_block_delta events of a sequence, concatenated
RECURSIVE ContentTextOf(_)
ContentTextOf(events) ==
    IF events = <<>> THEN <<>>
    ELSE (IF Head(events).type = "content_block_delta"
          THEN ToStr(Head(events).text) ELSE <<>>)
         \o ContentTextOf(Tail(events))

\* the events of stream 1 with their chunks, the one at the yield included
EmittedEntries ==
    IF pc[1] = "yield"
    THEN Append(out[1], [chunk |-> Len(consumed[1]), ev |-> pending[1]])
    ELSE out[1]

\* C22 as stated: the accumulator is the concatenation of the texts of the
\* content_block_delta events emitted so far, and of nothing else.
C22_AccumulatorAsStated == response[1] = ContentTextOf(Emitted(1))

\* C22: the accumulator is the concatenation, in order, of the texts of all
\* events emitted so far from choice-format chunks, content_block_delta and
\* reasoning_content alike (an undefined payload as "undefined"); the text of
\* events from Gemini-format chunks is not in it.
C22_Accumulator == response[1] = TextOf(EmittedEntries, 1)

\* native reasoning text "<think>" went into the accumulator and made the
\* plain content after it come out as reasoning
C22_Witness ==
    /\ Len(consumed[1]) = 2
    /\ consumed[1][1] = ChoiceChunk(Undefined, Str(OpenTag))
    /\ consumed[1][2] = ChoiceChunk(Str(<<"a">>), Undefined)
    /\ response[1] = OpenTag \o <<"a">>
    /\ Len(out[1]) = 2
    /\ out[1][2].ev = ReasoningDelta(Str(<<"a">>))


\* ---- C23 (SpecSplit)
\* what the inner loop yields from a buffer holding the whole body
RECURSIVE ParseAll(_)
ParseAll(text) ==
    IF IndexOfNL(text) = 0 THEN <<>>
    ELSE LET line == Trim(SubSeq(text, 1, IndexOfNL(text) - 1))
             rest == SubSeq(text, IndexOfNL(text) + 1, Len(text))
         IN  IF LineOutcome(line) \in {"return", "throw"} THEN <<>>
             ELSE IF LineOutcome(line) = "yield"
                  THEN <<JsonParse(Payload(line))>> \o ParseAll(rest)
                  ELSE ParseAll(rest)

\* the values yielded when the whole body arrives in a single read
SingleRead == ParseAll(Decode(<<>>, Wire).chars)

\* C23: however the body is split into reads, the parser yields a prefix of
\* what it yields when the whole body arrives in one read, and all of it once
\* it has ended without a read error.
C23_ReadBoundary ==
    /\ IsPrefix(yielded, SingleRead)
    /\ rpc = "done" => yielded = SingleRead

\* a two-byte character was split between two reads after a first value had
\* been yielded
C23_Witness ==
    /\ sent = <<"obj", "str">>
    /\ rpc = "read"
    /\ dpend = <<"C3">>
    /\ Len(yielded) = 1
    /\ buffer = DataPrefix \o <<"\"">>

\* a read ended inside the [DONE] sentinel
C23_SplitSentinel ==
    /\ rpc = "read"
    /\ buffer = DataPrefix \o <<"[", "D">>
    /\ Len(yielded) >= 1


\* ---- C24 (SpecSplit)
\* the lines starting with "data: " that end in a line feed within a text,
\* up to the first [DONE] line
RECURSIVE DataLinesIn(_)
DataLinesIn(text) ==
    IF IndexOfNL(text) = 0 THEN 0
    ELSE LET line == Trim(SubSeq(text, 1, IndexOfNL(text) - 1))
             rest == SubSeq(text, IndexOfNL(text) + 1, Len(text))
         IN  IF ~StartsWithData(line) THEN DataLinesIn(rest)
             ELSE IF Payload(line) = DoneText THEN 0
             ELSE 1 + DataLinesIn(rest)

\* the text received so far
Received == Decode(<<>>, SubSeq(Wire, 1, rpos)).chars

\* the body ends in a data line without a line feed, and has no [DONE] line
UnterminatedDataLine ==
    /\ sent # <<>>
    /\ ~terminated
    /\ sent[Len(sent)] \in {"obj", "str"}
    /\ \A i \in DOMAIN sent : sent[i] # "done"

\* C24: the values yielded are never more than the line-feed-terminated data
\* lines received before [DONE]; when the reader reports done on a body whose
\* last line is a valid data line without a line feed, that line is still in
\* the buffer and has not been yielded.
C24_OnlyTerminatedLines ==
    /\ Len(yielded) <= DataLinesIn(Received)
    /\ rpc = "done" /\ UnterminatedDataLine =>
           /\ buffer = Decode(<<>>, LineBytes(sent[Len(sent)])).chars
           /\ yielded = ValuesBeforeDone(SubSeq(sent, 1, Len(sent) - 1))

\* a terminated data line was yielded; a second, valid and unterminated, was
\* left in the buffer when the reader reported done
C24_Witness ==
    /\ sent = <<"str", "obj">>
    /\ ~terminated
    /\ rpc = "done"
    /\ cancels = 1
    /\ buffer = DataPrefix \o <<"{", "}">>
    /\ yielded = <<KindValue("str")>>

====
